---- MODULE Spec2Model ----
(***************************************************************************)
(* A model of the workshop-graphql snapshots: the value objects, the       *)
(* aggregates and the in-memory store of the authentication/conversation   *)
(* example (src/unnamed/part_000) and the person/car examples              *)
(* (src/src/index.ts, src/unnamed/part_002).                               *)
(*                                                                         *)
(* Conventions.  A JavaScript string whose characters matter (an email, a  *)
(* generated identifier, a message content) is a sequence of one-character *)
(* strings; a string that is only compared (a name, a password) is a TLA+  *)
(* string.  An object held by reference (User, Conversation, Car) lives in *)
(* a heap, a sequence indexed by its reference; the reference 0 stands for *)
(* `undefined`.  A value object is the record [value |-> v].  A thrown     *)
(* Error is the record [message, arg].                                     *)
(***************************************************************************)
EXTENDS Naturals, Sequences, FiniteSets

VARIABLES
  input,          \* SpecValue: the raw primitive handed to a constructor
  result,         \* SpecValue: what the constructor returned or threw
  conversation,   \* SpecConversation: the Conversation object
  memberCalls,    \* SpecConversation: arguments of the addMember calls so far
  messageCalls,   \* SpecConversation: arguments and draws of the publishMessage calls
  cars,           \* car examples: heap of Car objects
  carStore,       \* car examples: carStore.storage, in insertion order
  personStore,    \* car examples: personStore.storage, in insertion order
  lastSaved,      \* SpecStore: history, key -> reference last passed to save
  persisted,      \* SpecStore: history, reference -> ownerName at its last save
  pubsub,         \* SpecCars: payloads published on "CarBought", in order
  users,          \* Spec: heap of User objects
  userStore,      \* Spec: userStore.storage, in insertion order
  sessions,       \* Spec: history, the [token, user] pairs setToken was called for
  response,       \* Spec, SpecCars: outcome of the last GraphQL request
  subscriptions,  \* SpecCars: the personCars subscriptions and their event queues
  delivery        \* SpecCars: the last personCars result sent to a subscriber

vars == << input, result, conversation, memberCalls, messageCalls, cars,
           carStore, personStore, lastSaved, persisted, pubsub, users,
           userStore, sessions, response, subscriptions, delivery >>

valueVars == << input, result >>
conversationVars == << conversation, memberCalls, messageCalls >>
carVars == << cars, carStore, personStore >>
storeHistory == << lastSaved, persisted >>
authVars == << users, userStore, sessions >>
subscriptionVars == << subscriptions, delivery >>

\* What an action of one program leaves alone: the other programs' state.
ValueFrame ==
  UNCHANGED << conversationVars, carVars, storeHistory, pubsub, authVars,
               response, subscriptionVars >>
ConversationFrame ==
  UNCHANGED << valueVars, carVars, storeHistory, pubsub, authVars, response,
               subscriptionVars >>
StoreFrame ==
  UNCHANGED << valueVars, conversationVars, pubsub, authVars, response,
               subscriptionVars >>
CarsFrame ==
  UNCHANGED << valueVars, conversationVars, storeHistory, authVars >>
AuthFrame ==
  UNCHANGED << valueVars, conversationVars, carVars, storeHistory, pubsub,
               subscriptionVars >>

(***************************************************************************)
(* Bounds of the model.                                                    *)
(***************************************************************************)
MaxEmailLen == 5
MaxContentLen == 101
MaxMessages == 2
MaxMembers == 2
MaxCars == 3
MaxUsers == 2
MaxPurchases == 3

(***************************************************************************)
(* JavaScript strings as sequences of characters.                          *)
(***************************************************************************)
Min(a, b) == IF a < b THEN a ELSE b

\* String.prototype.substring(start, end) for 0 <= start <= end: the
\* characters at 0-based positions start .. end-1, clipped to the length.
Substring(s, start, end) ==
  LET lo == Min(start, Len(s))
      hi == Min(end, Len(s))
  IN  [i \in 1..(hi - lo) |-> s[lo + i]]

Repeat(c, n) == [i \in 1..n |-> c]

StringsOver(alphabet, maxLen) ==
  UNION {[1..n -> alphabet] : n \in 0..maxLen}

IsPrefix(s, t) == Len(s) <= Len(t) /\ \A i \in 1..Len(s) : s[i] = t[i]

(***************************************************************************)
(* Errors and results.                                                     *)
(***************************************************************************)
Error(message, arg) == [message |-> message, arg |-> arg]
NoError == Error("", <<>>)

InvalidEmailError(value) == Error("DomainError: Invalid email", value)
ContentTooLongError ==
  Error("DomainError: Message content must be less than 100 characters", <<>>)
InvalidPasswordError == Error("DomainError: Invalid password", <<>>)

Returned(v) == [ok |-> TRUE, value |-> v, error |-> NoError]
Thrown(e) == [ok |-> FALSE, value |-> [value |-> <<>>], error |-> e]

(***************************************************************************)
(* ValueObject and its subclasses.                                         *)
(***************************************************************************)
ValueObject(value) == [value |-> value]

Serialize(vo) == vo.value

\* No class of the example overrides toString: a value object converts to
\* the string Object.prototype.toString gives every plain object.
ToString(vo) == "[object Object]"

ValueEquals(left, right) == left.value = right.value

\* Id.generate: the characters 2..7 of the decimal rendering of the draw.
IdGenerate(random) == ValueObject(Substring(random, 2, 8))

\* The regular expression /^[^\s@]+@[^\s@]+\.[^\s@]+$/ as the automaton a
\* matcher runs over the string.  Positions: 0 before the local part, 1 in
\* the local part, 2 after the at sign, 3 in the domain, 4 after the
\* domain's dot, 5 in the last label (accepting).
Whitespace == {" "}
NotSpaceNorAt(c) == c \notin Whitespace /\ c # "@"

\* Mutant: the dot of the pattern left unescaped, so that it matches any
\* character.
EmailDeltaUnescapedDot(q, c) ==
  CASE q = 0 -> IF NotSpaceNorAt(c) THEN {1} ELSE {}
    [] q = 1 -> (IF NotSpaceNorAt(c) THEN {1} ELSE {}) \cup (IF c = "@" THEN {2} ELSE {})
    [] q = 2 -> IF NotSpaceNorAt(c) THEN {3} ELSE {}
    [] q = 3 -> (IF NotSpaceNorAt(c) THEN {3} ELSE {}) \cup {4}
    [] q = 4 -> IF NotSpaceNorAt(c) THEN {5} ELSE {}
    [] q = 5 -> IF NotSpaceNorAt(c) THEN {5} ELSE {}

EmailDelta(q, c) ==
  CASE q = 0 -> IF NotSpaceNorAt(c) THEN {1} ELSE {}
    [] q = 1 -> (IF NotSpaceNorAt(c) THEN {1} ELSE {}) \cup (IF c = "@" THEN {2} ELSE {})
    [] q = 2 -> IF NotSpaceNorAt(c) THEN {3} ELSE {}
    [] q = 3 -> (IF NotSpaceNorAt(c) THEN {3} ELSE {}) \cup (IF c = "." THEN {4} ELSE {})
    [] q = 4 -> IF NotSpaceNorAt(c) THEN {5} ELSE {}
    [] q = 5 -> IF NotSpaceNorAt(c) THEN {5} ELSE {}

RECURSIVE EmailRun(_, _, _)
EmailRun(qs, value, i) ==
  IF i > Len(value) THEN qs
  ELSE EmailRun({p \in 0..5 : \E q \in qs : p \in EmailDelta(q, value[i])},
                value, i + 1)

EmailIsValid(value) == 5 \in EmailRun({0}, value, 1)

\* new Email(value)
NewEmail(value) ==
  IF ~EmailIsValid(value) THEN Thrown(InvalidEmailError(value))
  ELSE Returned(ValueObject(value))

MessageContentLimit == 100

\* Mutant: the limit itself refused (>= for >).
NewMessageContentRefusingLimit(value) ==
  IF Len(value) >= MessageContentLimit THEN Thrown(ContentTooLongError)
  ELSE Returned(ValueObject(value))

\* new MessageContent(value)
NewMessageContent(value) ==
  IF Len(value) > MessageContentLimit THEN Thrown(ContentTooLongError)
  ELSE Returned(ValueObject(value))

\* ValueObject.deserialize, inherited by every subclass: `new this(value)`.
DeserializeEmail(value) == NewEmail(value)
DeserializeMessageContent(value) == NewMessageContent(value)

(***************************************************************************)
(* SpecValue: the constructors of the validated value objects, applied to  *)
(* every raw string of the bounded input sets.                             *)
(***************************************************************************)
EmailAlphabet == {"a", ".", "@", " "}

ValueInputs ==
  StringsOver(EmailAlphabet, MaxEmailLen)
    \cup {Repeat("a", n) : n \in 0..MaxContentLen}

NoResult == [op |-> "none", outcome |-> Returned(ValueObject(<<>>))]

ValueIdle == input = <<>> /\ result = NoResult

\* The emails tried are the strings of at most MaxEmailLen characters.
ConstructEmail ==
  /\ Len(input) <= MaxEmailLen
  /\ result' = [op |-> "new Email", outcome |-> NewEmail(input)]
  /\ UNCHANGED input
  /\ ValueFrame

DeserializeEmailCall ==
  /\ Len(input) <= MaxEmailLen
  /\ result' = [op |-> "Email.deserialize", outcome |-> DeserializeEmail(input)]
  /\ UNCHANGED input
  /\ ValueFrame

ConstructMessageContent ==
  /\ result' = [op |-> "new MessageContent", outcome |-> NewMessageContent(input)]
  /\ UNCHANGED input
  /\ ValueFrame

DeserializeMessageContentCall ==
  /\ result' = [op |-> "MessageContent.deserialize",
                outcome |-> DeserializeMessageContent(input)]
  /\ UNCHANGED input
  /\ ValueFrame

(***************************************************************************)
(* Math.random().toString(): the decimal renderings the model draws from.  *)
(* Two of them differ only after the sixth decimal, one has five decimals. *)
(***************************************************************************)
RandomDraws ==
  { <<"0", ".", "1", "2", "3", "4", "5", "6">>,
    <<"0", ".", "1", "2", "3", "4", "5", "6", "7">>,
    <<"0", ".", "1", "2", "3", "4", "5">> }

UserIds == { ValueObject(<<"1", "1", "1", "1", "1", "1">>),
             ValueObject(<<"2", "2", "2", "2", "2", "2">>) }

Contents == { ValueObject(<<"h", "i">>),
              ValueObject(<<"t", "h", "e", "r", "e">>) }

(***************************************************************************)
(* Message and Conversation.                                               *)
(***************************************************************************)
\* new Message(messageId, author, content)
Message(messageId, author, content) ==
  [messageId |-> messageId, author |-> author, content |-> content]

\* Message.redact
MessageRedact(author, content, random) ==
  Message(IdGenerate(random), author, content)

\* get id() of Message
MessageId(m) == ToString(m.messageId)

\* new Conversation(conversationId, title, members, messages)
Conversation(conversationId, title, members, messages) ==
  [conversationId |-> conversationId, title |-> title,
   members |-> members, messages |-> messages]

\* get id() of Conversation
ConversationId(c) == Serialize(c.conversationId)

\* Mutant: unshift for push, the new message put first.
PublishMessageOnFirst(c, author, content, random) ==
  [c EXCEPT !.messages = <<MessageRedact(author, content, random)>> \o @]

\* Conversation.publishMessage: the conversation after the call.
PublishMessageOn(c, author, content, random) ==
  [c EXCEPT !.messages = Append(@, MessageRedact(author, content, random))]

\* Mutant: a member already listed is not added again.
AddMemberOnOnce(c, userId) ==
  IF \E i \in 1..Len(c.members) : c.members[i] = userId THEN c
  ELSE [c EXCEPT !.members = Append(@, userId)]

\* Conversation.addMember: the conversation after the call.
AddMemberOn(c, userId) ==
  [c EXCEPT !.members = Append(@, userId)]

(***************************************************************************)
(* SpecConversation: one conversation, created with no member and no       *)
(* message, and the calls made on it.  memberCalls and messageCalls record *)
(* the arguments of the calls (and the draw each publishMessage made).     *)
(***************************************************************************)
ConversationInit ==
  /\ conversation \in
       { Conversation(IdGenerate(r), ValueObject("workshop"), <<>>, <<>>) :
           r \in RandomDraws }
  /\ memberCalls = <<>>
  /\ messageCalls = <<>>

ConversationIdle ==
  /\ conversation =
       Conversation(ValueObject(<<>>), ValueObject("workshop"), <<>>, <<>>)
  /\ memberCalls = <<>>
  /\ messageCalls = <<>>

DrawsSoFar == { messageCalls[i].random : i \in 1..Len(messageCalls) }

PublishMessage(author, content, random) ==
  /\ Len(conversation.messages) < MaxMessages
  /\ random \notin DrawsSoFar
  /\ conversation' = PublishMessageOn(conversation, author, content, random)
  /\ messageCalls' = Append(messageCalls,
        [author |-> author, content |-> content, random |-> random])
  /\ UNCHANGED memberCalls
  /\ ConversationFrame

AddMember(userId) ==
  /\ Len(conversation.members) < MaxMembers
  /\ conversation' = AddMemberOn(conversation, userId)
  /\ memberCalls' = Append(memberCalls, userId)
  /\ UNCHANGED messageCalls
  /\ ConversationFrame

(***************************************************************************)
(* InMemoryStore.  storage is the Map in insertion order: a sequence of    *)
(* entries [key, ref], no key twice; ref is the stored instance.           *)
(***************************************************************************)
Undefined == 0

StoreKeys(storage) == { storage[i].key : i \in 1..Len(storage) }

\* InMemoryStore.load: Map.get
StoreLoad(storage, id) ==
  IF id \in StoreKeys(storage)
  THEN LET i == CHOOSE j \in 1..Len(storage) : storage[j].key = id
       IN  storage[i].ref
  ELSE Undefined

\* Mutant: a key already present keeps its value.
MapSetIfAbsent(storage, key, ref) ==
  IF key \in StoreKeys(storage) THEN storage
  ELSE Append(storage, [key |-> key, ref |-> ref])

\* Map.set: an existing key keeps its place and takes the new value, a new
\* key goes last.
MapSet(storage, key, ref) ==
  IF key \in StoreKeys(storage)
  THEN [i \in 1..Len(storage) |->
          IF storage[i].key = key THEN [key |-> key, ref |-> ref]
          ELSE storage[i]]
  ELSE Append(storage, [key |-> key, ref |-> ref])

\* InMemoryStore.save(instance), with id the instance's id
StoreSave(storage, id, ref) == MapSet(storage, id, ref)

\* InMemoryStore.all: Array.from(storage.values())
StoreAll(storage) == [i \in 1..Len(storage) |-> storage[i].ref]

(***************************************************************************)
(* Person and Car (src/src/index.ts, src/unnamed/part_002).                *)
(***************************************************************************)
None == <<>>
Some(x) == <<x>>

\* new Person(name, age)
Person(name, age) == [name |-> name, age |-> age]
PersonId(p) == p.name

\* new Car(greyCardId): ownerName is not set yet
Car(greyCardId) == [greyCardId |-> greyCardId, ownerName |-> None]
CarId(c) == c.greyCardId

\* Car.registerTo: the car after the call.
RegisterToOn(c, ownerName) == [c EXCEPT !.ownerName = Some(ownerName)]

\* The module's constants john and jane; no Person is made after them.
People == << Person("John", 30), Person("Jane", 25) >>
john == 1
jane == 2

punto == Car(<<"1", "2", "3", "4", "5">>)
multipla == Car(<<"6", "7", "8", "9", "0">>)

OwnerNames == {"John", "Jane", "Bob"}

\* `${Math.random()}`.substring(2, 8)
GreyCardIdOf(random) == Substring(random, 2, 8)

GreyCardIds ==
  {CarId(punto), CarId(multipla)} \cup {GreyCardIdOf(r) : r \in RandomDraws}

\* The statements the module runs when it is loaded.
CarsInit ==
  /\ cars = << RegisterToOn(punto, "Jane"), RegisterToOn(multipla, "John") >>
  /\ personStore =
       StoreSave(StoreSave(<<>>, PersonId(People[john]), john),
                 PersonId(People[jane]), jane)
  /\ carStore =
       StoreSave(StoreSave(<<>>, CarId(punto), 1), CarId(multipla), 2)

StoreHistoryInit ==
  /\ lastSaved = [k \in GreyCardIds |->
                    IF k = CarId(punto) THEN 1
                    ELSE IF k = CarId(multipla) THEN 2 ELSE Undefined]
  /\ persisted = << Some("Jane"), Some("John") >>

(***************************************************************************)
(* SpecStore (src/src/index.ts): the car store under the buyNewCar         *)
(* mutation and under direct calls of Car.registerTo and carStore.save on  *)
(* the instances that exist.                                               *)
(***************************************************************************)
\* Mutation.buyNewCar of index.ts: the new car is registered to jane.
BuyNewCarForJane(random) ==
  /\ Len(cars) < MaxCars
  /\ LET newCar == RegisterToOn(Car(GreyCardIdOf(random)), People[jane].name)
         ref == Len(cars) + 1
     IN  /\ cars' = Append(cars, newCar)
         /\ carStore' = StoreSave(carStore, CarId(newCar), ref)
         /\ lastSaved' = [lastSaved EXCEPT ![CarId(newCar)] = ref]
         /\ persisted' = Append(persisted, newCar.ownerName)
  /\ UNCHANGED personStore
  /\ StoreFrame

\* car.registerTo(ownerName) on an existing instance
RegisterTo(ref, ownerName) ==
  /\ ref \in 1..Len(cars)
  /\ cars' = [cars EXCEPT ![ref] = RegisterToOn(@, ownerName)]
  /\ UNCHANGED << carStore, personStore, lastSaved, persisted >>
  /\ StoreFrame

\* carStore.save(car) of an existing instance
SaveCar(ref) ==
  /\ ref \in 1..Len(cars)
  /\ carStore' = StoreSave(carStore, CarId(cars[ref]), ref)
  /\ lastSaved' = [lastSaved EXCEPT ![CarId(cars[ref])] = ref]
  /\ persisted' = [persisted EXCEPT ![ref] = cars[ref].ownerName]
  /\ UNCHANGED << cars, personStore >>
  /\ StoreFrame

(***************************************************************************)
(* SpecCars (src/unnamed/part_002): buyNewCar(ownerName) with the owner    *)
(* lookup and the CarBought event, and the personCars subscriptions.       *)
(***************************************************************************)
OwnerUnknownError == Error("Applicative Error: Owner unknown", <<>>)

\* A response: the resolver and its arguments, the error it threw or the
\* value it returned, and its calls of context.setToken / clearToken.
Response(op, args, error, value, setToken, clearToken) ==
  [op |-> op, args |-> args, error |-> error, value |-> value,
   setToken |-> setToken, clearToken |-> clearToken]

Failed(op, args, error) == Response(op, args, error, <<>>, None, FALSE)

NoResponse == Response("none", <<>>, NoError, <<>>, None, FALSE)

\* The ownerName variable of the personCars subscriptions that are opened.
\* Subscriptions with one ownerName receive and filter alike, so one is
\* kept for each.
SubscriberNames == {"John", "Jane"}

\* A subscription: pubsub.asyncIterator(["CarBought"]) with the payloads it
\* was handed and its consumer has not pulled yet.
Subscription(active, queue) == [active |-> active, queue |-> queue]

\* pubsub.publish("CarBought", payload): every open iterator is handed the
\* payload at once; the filter and resolve run when its consumer pulls it.
PubSubPublish(payload) ==
  /\ pubsub' = Append(pubsub, payload)
  /\ subscriptions' =
       [o \in SubscriberNames |->
          IF subscriptions[o].active
          THEN Subscription(TRUE, Append(subscriptions[o].queue, payload))
          ELSE subscriptions[o]]

\* Mutant: the subscription without its filter, every event passed on.
PersonCarsFilterNone(payload, variables) == TRUE

\* The filter of personCars, given to withFilter.
PersonCarsFilter(payload, variables) ==
  payload.ownerName = variables.ownerName

\* carStore.all() as the objects it holds.
AllCars == [i \in 1..Len(carStore) |-> cars[StoreAll(carStore)[i]]]

\* resolve of personCars: the stored cars of the payload's owner, read when
\* the event is resolved.
PersonCarsResolve(payload) ==
  LET OwnedByPayloadOwner(car) == car.ownerName = Some(payload.ownerName)
  IN  SelectSeq(AllCars, OwnedByPayloadOwner)

\* A personCars result, with the place in pubsub of the event it answers
\* and the number of events published when it was resolved (history).
Delivery(ownerName, payload, event, published, carsSent) ==
  [ownerName |-> ownerName, payload |-> payload, event |-> event,
   published |-> published, cars |-> carsSent]

NoDelivery ==
  Delivery("", [greyCardId |-> <<>>, ownerName |-> ""], 0, 0, <<>>)

SubscriptionsInit ==
  /\ subscriptions = [o \in SubscriberNames |-> Subscription(FALSE, <<>>)]
  /\ delivery = NoDelivery

\* Mutant: the owner is not looked up (buyNewCar as index.ts has it).
BuyNewCarUnchecked(ownerName, random) ==
  /\ CarsFrame
  /\ Len(pubsub) < MaxPurchases
  /\ LET newCar == RegisterToOn(Car(GreyCardIdOf(random)), ownerName)
         ref == Len(cars) + 1
     IN  /\ cars' = Append(cars, newCar)
         /\ carStore' = StoreSave(carStore, CarId(newCar), ref)
         /\ PubSubPublish(
               [greyCardId |-> newCar.greyCardId, ownerName |-> ownerName])
         /\ response' = Response("buyNewCar", <<ownerName>>, NoError,
                                  <<ref>>, None, FALSE)
  /\ UNCHANGED << personStore, delivery >>

\* Mutation.buyNewCar of part_002
BuyNewCar(ownerName, random) ==
  /\ CarsFrame
  /\ LET person == StoreLoad(personStore, ownerName) IN
     IF person = Undefined
     THEN /\ response' = Failed("buyNewCar", <<ownerName>>, OwnerUnknownError)
          /\ UNCHANGED << cars, carStore, personStore, pubsub,
                          subscriptionVars >>
     ELSE /\ Len(pubsub) < MaxPurchases
          /\ LET newCar == RegisterToOn(Car(GreyCardIdOf(random)), ownerName)
                 ref == Len(cars) + 1
             IN  /\ cars' = Append(cars, newCar)
                 /\ carStore' = StoreSave(carStore, CarId(newCar), ref)
                 /\ PubSubPublish(
                       [greyCardId |-> newCar.greyCardId, ownerName |-> ownerName])
                 /\ response' = Response("buyNewCar", <<ownerName>>, NoError,
                                          <<ref>>, None, FALSE)
          /\ UNCHANGED << personStore, delivery >>

\* A client opens the subscription personCars(ownerName).
Subscribe(ownerName) ==
  /\ ~subscriptions[ownerName].active
  /\ subscriptions' =
       [subscriptions EXCEPT ![ownerName] = Subscription(TRUE, <<>>)]
  /\ UNCHANGED << carVars, pubsub, response, delivery >>
  /\ CarsFrame

\* The consumer of a subscription pulls its next event: the filter decides
\* whether the event is for this subscriber, and resolve computes the
\* result sent.  The consumer pulls when it has sent the result before, so
\* requests handled meanwhile come between a publish and this step.
Deliver(ownerName) ==
  /\ subscriptions[ownerName].active
  /\ subscriptions[ownerName].queue # <<>>
  /\ LET payload == Head(subscriptions[ownerName].queue)
         event == Len(pubsub) - Len(subscriptions[ownerName].queue) + 1
     IN  /\ subscriptions' =
              [subscriptions EXCEPT ![ownerName] =
                 Subscription(TRUE, Tail(subscriptions[ownerName].queue))]
         /\ IF PersonCarsFilter(payload, [ownerName |-> ownerName])
            THEN delivery' = Delivery(ownerName, payload, event, Len(pubsub),
                                      PersonCarsResolve(payload))
            ELSE UNCHANGED delivery
  /\ UNCHANGED << carVars, pubsub, response >>
  /\ CarsFrame

(***************************************************************************)
(* User, Password, Token (src/unnamed/part_000).                           *)
(***************************************************************************)
\* new User(userId, email, password, name)
User(userId, email, password, name) ==
  [userId |-> userId, email |-> email, password |-> password, name |-> name]

\* User.new
UserNew(email, password, name, random) ==
  User(IdGenerate(random), email, password, name)

\* get id() of User: this.name.toString()
UserId(u) == ToString(u.name)

\* Token.fromPassword
TokenFromPassword(password) == ValueObject(password.value)

\* User.hasToken
HasToken(u, token) == u.password.value = token.value

\* Mutant: the candidate is not compared with the stored password.
AuthenticateUnchecked(u, password) ==
  Returned(TokenFromPassword(password))

\* User.authenticate
Authenticate(u, password) ==
  IF ValueEquals(u.password, password)
  THEN Returned(TokenFromPassword(password))
  ELSE Thrown(InvalidPasswordError)

\* Array.prototype.find over all(): the first instance that passes, hits
\* being the places of refs whose instance passes the test.
Find(refs, hits) ==
  IF hits = {} THEN Undefined
  ELSE refs[CHOOSE i \in hits : \A j \in hits : i <= j]

\* userStore.loadByEmail
LoadByEmail(email) ==
  Find(StoreAll(userStore),
       { i \in 1..Len(userStore) :
           Serialize(users[StoreAll(userStore)[i]].email) = Serialize(email) })

\* userStore.loadByToken
LoadByToken(token) ==
  Find(StoreAll(userStore),
       { i \in 1..Len(userStore) :
           HasToken(users[StoreAll(userStore)[i]], token) })

(***************************************************************************)
(* Spec (src/unnamed/part_000): the resolvers me, logIn, signUp, logOut.   *)
(* The session token lives in the client's cookie: a request carries it in *)
(* context.token, a response sets or clears it.  A resolver is one step:   *)
(* what it awaits is already resolved, users are immutable once made, and  *)
(* two resolvers interleaved at their awaits leave the store and the       *)
(* responses that running them one after the other leaves.                 *)
(***************************************************************************)
Names == {"Ann", "Bob"}
Passwords == {"pw", "wrong"}
EmailInputs ==
  { <<"a", "@", "b", ".", "c">>, <<"b", "@", "b", ".", "c">>, <<"a", "b">> }
Tokens == {None} \cup {Some(p) : p \in Passwords}
UserIdDraws ==
  { <<"0", ".", "1", "2", "3", "4", "5", "6">>,
    <<"0", ".", "1", "2", "3", "4", "5">> }

NotLoggedInError == Error("Applicative Error: Not logged in", <<>>)
UnknownTokenError == Error("Applicative Error: Unknown token", <<>>)
UserNotFoundError == Error("Applicative Error: User not found", <<>>)
UserExistsError == Error("Applicative Error: User already exists", <<>>)

\* The projection { id, name } the resolvers return.
UserView(u) == [id |-> Serialize(u.userId), name |-> Serialize(u.name)]

\* `!token`: undefined and the empty string are falsy.
Falsy(token) == token = None \/ token = Some("")

AuthInit ==
  /\ users = <<>>
  /\ userStore = <<>>
  /\ sessions = {}

\* Query.me, with context.token = token
Me(token) ==
  /\ IF Falsy(token)
     THEN response' = Failed("me", <<token>>, NotLoggedInError)
     ELSE LET user == LoadByToken(ValueObject(token[1])) IN
          IF user = Undefined
          THEN response' = Failed("me", <<token>>, UnknownTokenError)
          ELSE response' = Response("me", <<token>>, NoError,
                                    <<UserView(users[user])>>, None, FALSE)
  /\ UNCHANGED authVars
  /\ AuthFrame

\* Mutation.logIn
LogIn(email, password) ==
  /\ AuthFrame
  /\ LET args == <<email, password>>
         made == DeserializeEmail(email)
     IN
     IF ~made.ok
     THEN response' = Failed("logIn", args, made.error) /\ UNCHANGED authVars
     ELSE LET user == LoadByEmail(made.value) IN
          IF user = Undefined
          THEN response' = Failed("logIn", args, UserNotFoundError)
               /\ UNCHANGED authVars
          ELSE LET auth == Authenticate(users[user], ValueObject(password)) IN
               IF ~auth.ok
               THEN response' = Failed("logIn", args, auth.error)
                    /\ UNCHANGED authVars
               ELSE /\ response' = Response("logIn", args, NoError,
                                     <<UserView(users[user])>>,
                                     Some(Serialize(auth.value)), FALSE)
                    /\ sessions' = sessions \cup
                         {[token |-> Serialize(auth.value), user |-> user]}
                    /\ UNCHANGED << users, userStore >>

\* Mutation.signUp.  userStore.load(name) looks the name up among the keys,
\* which are the users' ids: it finds a user only for the name that is
\* every user's id, "[object Object]", a name outside Names.
SignUp(name, email, password, random) ==
  /\ AuthFrame
  /\ LET args == <<name, email, password>>
         existingUser == StoreLoad(userStore, name)
         made == DeserializeEmail(email)
     IN
     IF existingUser # Undefined
     THEN response' = Failed("signUp", args, UserExistsError)
          /\ UNCHANGED authVars
     ELSE IF ~made.ok
     THEN response' = Failed("signUp", args, made.error) /\ UNCHANGED authVars
     ELSE /\ Len(users) < MaxUsers
          /\ LET user == UserNew(made.value, ValueObject(password),
                                 ValueObject(name), random)
                 ref == Len(users) + 1
                 auth == Authenticate(user, ValueObject(password))
             IN  /\ users' = Append(users, user)
                 /\ userStore' = StoreSave(userStore, UserId(user), ref)
                 /\ IF ~auth.ok
                    THEN /\ response' = Failed("signUp", args, auth.error)
                         /\ UNCHANGED sessions
                    ELSE /\ response' = Response("signUp", args, NoError,
                                          <<UserView(user)>>,
                                          Some(Serialize(auth.value)), FALSE)
                         /\ sessions' = sessions \cup
                              {[token |-> Serialize(auth.value), user |-> ref]}

\* Mutation.logOut
LogOut ==
  /\ response' = Response("logOut", <<>>, NoError, <<TRUE>>, None, TRUE)
  /\ UNCHANGED authVars
  /\ AuthFrame

(***************************************************************************)
(* The specifications.  Each one runs one program of the repository; the   *)
(* variables of the others keep their initial value.                       *)
(***************************************************************************)
ValueInit == input \in ValueInputs /\ result = NoResult

Idle(running) ==
  /\ "value" \in running \/ ValueIdle
  /\ "conversation" \in running \/ ConversationIdle
  /\ CarsInit
  /\ StoreHistoryInit
  /\ pubsub = <<>>
  /\ SubscriptionsInit
  /\ AuthInit
  /\ response = NoResponse

\* Spec: the authentication example.
Init == Idle({})

Next ==
  \/ \E token \in Tokens : Me(token)
  \/ \E email \in EmailInputs, password \in Passwords : LogIn(email, password)
  \/ \E name \in Names, email \in EmailInputs, password \in Passwords,
        random \in UserIdDraws : SignUp(name, email, password, random)
  \/ LogOut

Spec == Init /\ [][Next]_vars

\* SpecValue: the value-object constructors.
InitValue == ValueInit /\ Idle({"value"})

NextValue ==
  \/ ConstructEmail
  \/ DeserializeEmailCall
  \/ ConstructMessageContent
  \/ DeserializeMessageContentCall

SpecValue == InitValue /\ [][NextValue]_vars

\* SpecConversation: the Conversation aggregate.
InitConversation == ConversationInit /\ Idle({"conversation"})

NextConversation ==
  \/ \E author \in UserIds, content \in Contents, random \in RandomDraws :
        PublishMessage(author, content, random)
  \/ \E userId \in UserIds : AddMember(userId)

SpecConversation == InitConversation /\ [][NextConversation]_vars

\* SpecStore: the car store of index.ts.
NextStore ==
  \/ \E random \in RandomDraws : BuyNewCarForJane(random)
  \/ \E ref \in 1..MaxCars, ownerName \in OwnerNames : RegisterTo(ref, ownerName)
  \/ \E ref \in 1..MaxCars : SaveCar(ref)

SpecStore == Init /\ [][NextStore]_vars

\* SpecCars: buyNewCar(ownerName) of part_002.
NextCars ==
  \/ \E ownerName \in OwnerNames, random \in RandomDraws :
        BuyNewCar(ownerName, random)
  \/ \E ownerName \in SubscriberNames : Subscribe(ownerName)
  \/ \E ownerName \in SubscriberNames : Deliver(ownerName)

SpecCars == Init /\ [][NextCars]_vars

(***************************************************************************)
(* The claims about the value objects, checked under SpecValue.            *)
(***************************************************************************)
HasAt(s) == \E i \in 1..Len(s) : s[i] = "@"

\* The domain part is what follows the last at sign.
MissingDomainDot(s) ==
  /\ HasAt(s)
  /\ LET at == CHOOSE i \in 1..Len(s) :
                 s[i] = "@" /\ \A j \in (i + 1)..Len(s) : s[j] # "@"
     IN  \A j \in (at + 1)..Len(s) : s[j] # "."

\* s[lo..hi] is not empty and holds neither whitespace nor an at sign.
PlainPart(s, lo, hi) ==
  lo <= hi /\ \A k \in lo..hi : s[k] \notin {" ", "@"}

\* local-part@domain.tld
WellFormedEmail(s) ==
  \E i, j \in 1..Len(s) :
    /\ i < j
    /\ s[i] = "@"
    /\ s[j] = "."
    /\ PlainPart(s, 1, i - 1)
    /\ PlainPart(s, i + 1, j - 1)
    /\ PlainPart(s, j + 1, Len(s))

\* C6: constructing or deserializing an Email throws the invalid-email
\* error for every string without an at sign or without a dot in its domain
\* part, and returns the email for every string local-part@domain.tld whose
\* three parts are non-empty and hold no whitespace and no at sign.
C6_EmailValidation ==
  result.op \in {"new Email", "Email.deserialize"} =>
    /\ (~HasAt(input) \/ MissingDomainDot(input)) =>
         /\ ~result.outcome.ok
         /\ result.outcome.error = InvalidEmailError(input)
    /\ WellFormedEmail(input) =>
         /\ result.outcome.ok
         /\ Serialize(result.outcome.value) = input

\* An email with an at sign and no dot after it was refused.
C6_Witness ==
  /\ result.op = "Email.deserialize"
  /\ input = <<"a", "@", "a", "a">>
  /\ ~result.outcome.ok

SixDecimals(r) == [k \in 1..Min(6, Len(r) - 2) |-> r[k + 2]]

MessagesFollowCalls ==
  LET m == conversation.messages IN
  /\ Len(m) = Len(messageCalls)
  /\ \A i \in 1..Len(m) :
       /\ m[i].author = messageCalls[i].author
       /\ m[i].content = messageCalls[i].content
       /\ Serialize(m[i].messageId) = SixDecimals(messageCalls[i].random)

\* C4, as amended: from a conversation without messages, any sequence of
\* publishMessage calls yields as many messages as calls, with the authors
\* and contents in call order, each message carrying the identifier
\* generated at its call, the first six decimals of that call's draw; two
\* messages carry distinct identifiers exactly when their draws differ
\* within those six decimals.
C4_MessagesInCallOrder ==
  /\ MessagesFollowCalls
  /\ \A i, j \in 1..Len(conversation.messages) :
       (conversation.messages[i].messageId = conversation.messages[j].messageId)
         <=> (SixDecimals(messageCalls[i].random) = SixDecimals(messageCalls[j].random))

\* C4 as stated: the identifiers of the messages are pairwise distinct.
C4_DistinctIdentifiers ==
  /\ MessagesFollowCalls
  /\ \A i, j \in 1..Len(conversation.messages) :
       i # j =>
         conversation.messages[i].messageId # conversation.messages[j].messageId

\* Two calls with different authors and contents, whose draws differ, left
\* two messages with one identifier.
C4_Witness ==
  /\ Len(conversation.messages) = 2
  /\ conversation.messages[1].author # conversation.messages[2].author
  /\ conversation.messages[1].content # conversation.messages[2].content
  /\ messageCalls[1].random # messageCalls[2].random
  /\ conversation.messages[1].messageId = conversation.messages[2].messageId

C8_Step ==
  /\ ConversationId(conversation') = ConversationId(conversation)
  /\ IsPrefix(conversation.members, conversation'.members)
  /\ IsPrefix(conversation.messages, conversation'.messages)
  /\ memberCalls' # memberCalls =>
       /\ conversation'.members =
            Append(conversation.members, memberCalls'[Len(memberCalls')])
       /\ conversation'.messages = conversation.messages
  /\ messageCalls' # messageCalls =>
       /\ Len(conversation'.messages) = Len(conversation.messages) + 1
       /\ conversation'.members = conversation.members

\* C8: the collections of a conversation only grow.  Every addMember(u)
\* puts u last in members and lengthens it by one, also when u is a member
\* already; every publishMessage lengthens messages by one; both keep the
\* earlier elements, the other collection and the conversation's id, so the
\* members and the messages of an earlier state are prefixes of those of
\* any later state.
C8_CollectionsOnlyGrow == [][C8_Step]_vars

\* A user was added twice and is listed twice, after a message was
\* published.
C8_Witness ==
  /\ Len(conversation.members) = 2
  /\ conversation.members[1] = conversation.members[2]
  /\ Len(conversation.messages) >= 1

(***************************************************************************)
(* The claims about the store, checked under SpecStore.                    *)
(***************************************************************************)
\* The places of all() that hold an instance whose id is k.
HeldUnder(k) ==
  { i \in 1..Len(StoreAll(carStore)) : CarId(cars[StoreAll(carStore)[i]]) = k }

\* C1: after any sequence of saves the store is the last-write-wins map of
\* what was saved: for an id that was saved, all() holds exactly one
\* instance with that id and load returns the instance saved last under
\* it; for an id never saved, load returns undefined.
C1_LastWriteWins ==
  \A k \in GreyCardIds :
    IF lastSaved[k] = Undefined
    THEN /\ StoreLoad(carStore, k) = Undefined
         /\ HeldUnder(k) = {}
    ELSE /\ StoreLoad(carStore, k) = lastSaved[k]
         /\ Cardinality(HeldUnder(k)) = 1
         /\ \A i \in HeldUnder(k) : StoreAll(carStore)[i] = lastSaved[k]

\* A bought car took punto's grey card id and its place in the store, and
\* saving punto again took the place back.
C1_Witness ==
  /\ Len(cars) = 3
  /\ CarId(cars[3]) = CarId(punto)
  /\ lastSaved[CarId(punto)] = 1
  /\ StoreLoad(carStore, CarId(punto)) = 1
  /\ persisted[1] # Some("Jane")

\* C5: what load and all() show of an instance is its state when it was
\* last saved: a registerTo after the save does not show until the
\* instance is saved again.
C5_OnlySavedStateVisible ==
  \A i \in 1..Len(StoreAll(carStore)) :
    LET ref == StoreAll(carStore)[i] IN
    /\ StoreLoad(carStore, CarId(cars[ref])) = ref
    /\ cars[ref].ownerName = persisted[ref]

(***************************************************************************)
(* The claim about buyNewCar(ownerName), checked under SpecCars.           *)
(***************************************************************************)
C9_Outcome ==
  response.op = "buyNewCar" =>
    LET ownerName == response.args[1] IN
    IF StoreLoad(personStore, ownerName) = Undefined
    THEN /\ response.error = OwnerUnknownError
         /\ response.value = <<>>
    ELSE /\ response.error = NoError
         /\ Len(response.value) = 1
         /\ LET car == cars[response.value[1]] IN
            /\ car.ownerName = Some(ownerName)
            /\ StoreLoad(carStore, CarId(car)) = response.value[1]

C9_Step ==
  /\ response'.error = OwnerUnknownError =>
       /\ cars' = cars
       /\ carStore' = carStore
       /\ pubsub' = pubsub
  /\ ( /\ response' # response
       /\ response'.op = "buyNewCar"
       /\ response'.error = NoError ) =>
       /\ Len(cars') = Len(cars) + 1
       /\ response'.value[1] = Len(cars')
       /\ \A k \in GreyCardIds :
            k # CarId(cars'[Len(cars')]) =>
              StoreLoad(carStore', k) = StoreLoad(carStore, k)

\* C9: buyNewCar(ownerName) checks the owner lookup.  When the person store
\* has no ownerName the request fails with "Owner unknown", the car store
\* is as before and no CarBought event is published; when it has, one car,
\* registered to ownerName, is saved and returned, and nothing else in the
\* car store changes.
C9_OwnerLookupChecked == [][C9_Outcome' /\ C9_Step]_vars

\* An unknown owner was refused after a car had been bought.
C9_Witness ==
  /\ response.op = "buyNewCar"
  /\ response.error = OwnerUnknownError
  /\ Len(pubsub) >= 1

\* The car store holds, under the grey card id of a payload, a car
\* registered to the payload's owner.
HoldsCarOf(storage, heap, payload) ==
  LET ref == StoreLoad(storage, payload.greyCardId) IN
  /\ ref # Undefined
  /\ heap[ref] = RegisterToOn(Car(payload.greyCardId), payload.ownerName)

\* When an event is published its car is in the car store already, and
\* every open subscription is handed the event, whatever its ownerName.
C12_Step ==
  pubsub' # pubsub =>
    LET payload == pubsub'[Len(pubsub')] IN
    /\ pubsub' = Append(pubsub, payload)
    /\ HoldsCarOf(carStore', cars', payload)
    /\ \A o \in SubscriberNames :
         subscriptions[o].active =>
           subscriptions'[o].queue = Append(subscriptions[o].queue, payload)

\* The result sent answers a published event of the subscribed owner and
\* lists only cars of that owner.
DeliveredToOwnerOnly ==
  /\ delivery.event \in 1..delivery.published
  /\ delivery.published <= Len(pubsub)
  /\ delivery.payload = pubsub[delivery.event]
  /\ delivery.payload.ownerName = delivery.ownerName
  /\ \A i \in 1..Len(delivery.cars) :
       delivery.cars[i].ownerName = Some(delivery.ownerName)

\* The result sent lists the car of the event it answers.
ListsCarJustBought ==
  \E i \in 1..Len(delivery.cars) :
    delivery.cars[i] =
      RegisterToOn(Car(delivery.payload.greyCardId), delivery.payload.ownerName)

\* The last purchase, among those published when the result was resolved,
\* under the grey card id of the event the result answers.
LastPurchaseUnderId ==
  LET same == { m \in delivery.event..delivery.published :
                  pubsub[m].greyCardId = delivery.payload.greyCardId }
  IN  pubsub[CHOOSE m \in same : \A n \in same : n <= m]

C12_Delivery ==
  delivery # NoDelivery =>
    /\ DeliveredToOwnerOnly
    /\ ListsCarJustBought <=>
         (LastPurchaseUnderId.ownerName = delivery.ownerName)

\* C12, as amended: buyNewCar saves the new car before it publishes the
\* CarBought event, and a personCars(ownerName) subscription sends a result
\* only for the events whose ownerName is its own; every result sent lists
\* only cars of the subscribed owner, and lists the car just bought unless
\* a later purchase under the same grey card id for another owner took its
\* place in the car store before the result was resolved.
C12_SavedBeforePublished ==
  /\ [][C12_Step]_vars
  /\ []C12_Delivery

\* C12 as stated: every result sent lists the car just bought and only
\* cars of the subscribed owner.
C12_ResultListsCarJustBought ==
  delivery # NoDelivery => (DeliveredToOwnerOnly /\ ListsCarJustBought)

\* John's subscription was sent a result for a purchase of his that lists
\* the car bought together with the car he had, resolved after a further
\* purchase was published, while Jane's subscription has no event left to
\* pull.
C12_Witness ==
  /\ delivery.ownerName = "John"
  /\ ListsCarJustBought
  /\ Len(delivery.cars) >= 2
  /\ delivery.published > delivery.event
  /\ subscriptions["Jane"].active
  /\ subscriptions["Jane"].queue = <<>>

(***************************************************************************)
(* The claims about the authentication example, checked under Spec.        *)
(***************************************************************************)
\* C2: two distinct aggregates of one kind never expose the same id: two
\* users made by User.new with different names, emails and generated
\* UserIds have different ids, and both stay in the store under their own.
C2_ExclusiveIdentity ==
  \A r1, r2 \in 1..Len(users) :
    ( /\ r1 # r2
      /\ users[r1].name # users[r2].name
      /\ users[r1].email # users[r2].email
      /\ users[r1].userId # users[r2].userId )
    => /\ UserId(users[r1]) # UserId(users[r2])
       /\ StoreLoad(userStore, UserId(users[r1])) = r1
       /\ StoreLoad(userStore, UserId(users[r2])) = r2

C3_Outcome ==
  /\ \A r \in 1..Len(users), q \in Passwords :
       LET P == users[r].password.value
           auth == Authenticate(users[r], ValueObject(q))
       IN  IF q = P
           THEN auth.ok /\ Serialize(auth.value) = P
           ELSE ~auth.ok /\ auth.error = InvalidPasswordError
  /\ (response.op = "logIn" /\ EmailIsValid(response.args[1])) =>
       LET found == LoadByEmail(ValueObject(response.args[1]))
           Q == response.args[2]
       IN  found # Undefined =>
             IF Q = users[found].password.value
             THEN /\ response.error = NoError
                  /\ response.setToken = Some(users[found].password.value)
             ELSE /\ response.error = InvalidPasswordError
                  /\ response.setToken = None

\* C3: for an account with stored password P and a candidate Q,
\* authenticate(Q) returns a token whose value is P when Q equals P by
\* value, and throws the invalid-password error, returning no token,
\* otherwise; logIn, which calls it, leaves the accounts as they were.
C3_AuthenticateIffSamePassword ==
  /\ []C3_Outcome
  /\ [][response'.op = "logIn" => UNCHANGED << users, userStore >>]_vars

\* A logIn with the email of a stored account and another password than
\* its own was refused.
C3_Witness ==
  /\ response.op = "logIn"
  /\ response.error = InvalidPasswordError
  /\ response.setToken = None

\* C10: me, asked with the token a successful signUp or logIn of a user
\* set, returns the id and the name of that user, whoever else signed up;
\* asked without a token it fails with "Not logged in", and with a token
\* no stored user has, with "Unknown token".
C10_MeReturnsTokenOwner ==
  response.op = "me" =>
    LET token == response.args[1] IN
    /\ token = None => response.error = NotLoggedInError
    /\ \A s \in sessions :
         token = Some(s.token) =>
           /\ response.error = NoError
           /\ response.value = <<UserView(users[s.user])>>
    /\ ( /\ token # None
         /\ \A i \in 1..Len(userStore) :
              Some(users[userStore[i].ref].password.value) # token )
       => response.error = UnknownTokenError

\* The names of the users userStore holds.
StoredNames ==
  { Serialize(users[StoreAll(userStore)[i]].name) : i \in 1..Len(userStore) }

\* A signUp under a name the store holds already is refused and changes
\* nothing.
C11_Step ==
  (response'.op = "signUp" /\ response'.args[1] \in StoredNames) =>
    /\ response'.error = UserExistsError
    /\ response'.setToken = None
    /\ UNCHANGED << users, userStore >>

\* Every user who signed up is found by their email, and their own
\* password authenticates the user found.
C11_StayLoadable ==
  \A r \in 1..Len(users) :
    LET found == LoadByEmail(users[r].email) IN
    /\ found # Undefined
    /\ Authenticate(users[found], users[r].password).ok

\* C11: signUp refuses a name that is registered already: a signUp whose
\* name is the name of a user in the user store fails with "User already
\* exists", leaves the user store as it was and sets no token; every user
\* who signed up therefore stays loadable by email, and a logIn with their
\* email and password succeeds.
C11_SignUpRejectsRegisteredName ==
  /\ [][C11_Step]_vars
  /\ []C11_StayLoadable

====
